---------------------------- MODULE Spec2Model ----------------------------
(***************************************************************************)
(* Model of Ember.  The profitability / gas-arbitration engine             *)
(* (utils/profitCalculator.js): calculateProfit, calculateOptimalBurn,     *)
(* formatProfitData, with the /api/profitability handler that calls them   *)
(* and the browser's updateProfitabilityUI that reads the response; the    *)
(* price cache of utils/priceFeeds.js; EmberSolver.execute; and the wallet *)
(* flow and the audio alert of public/app.js.  Each part has its own       *)
(* specification over the same variables: Spec and SpecAny (engine),       *)
(* SpecCache, SpecSolver, SpecWallet, SpecBrowser and SpecServed.          *)
(*                                                                         *)
(* Numbers.  A JavaScript Number is modelled as an exact decimal           *)
(* [m |-> mantissa, e |-> exponent, nan |-> FALSE] standing for m * 10^e,  *)
(* kept normalised (no trailing zero in m, zero is 0 * 10^0), or as the    *)
(* single non-finite value NaN.  Arithmetic is exact; binary64 rounding is *)
(* not modelled, and the input sets below keep every mantissa inside the   *)
(* integer range of the checker.  `undefined` in a numeric field behaves   *)
(* in this code exactly as NaN (falsy, absorbing in arithmetic, false in   *)
(* every comparison) and is represented by NaN.                            *)
(*                                                                         *)
(* Decimal strings (wei amounts, raw balances, the output of               *)
(* ethers.formatUnits) are [m, e] pairs that are NOT normalised: the       *)
(* string "4000.0" is not the number 4000 until parseFloat reads it.       *)
(***************************************************************************)
EXTENDS Integers, Sequences, FiniteSets, TLC

VARIABLES jarTokens, uniAmount, uniPrice, threshold, gasPrice, pc, profit, optimal,
          raised, profit2, formatted, ui, response

\* utils/priceFeeds.js: the module-level price cache, the clock it reads,
\* the calls of getMultipleTokenPrices awaiting the price service, the
\* number of calls made, the requests sent out, the latest settled call.
VARIABLES priceCache, clock, inFlight, nCalls, requests, lastCall

\* The profitability engine, its handler and the page that renders it.
engineVars == <<jarTokens, uniAmount, uniPrice, threshold, gasPrice, pc, profit, optimal,
                raised, profit2, formatted, ui, response>>

\* contracts/EmberSolver.sol: WETH balances of the contract and of its owner,
\* the contract's balances of the other tokens, the latest call of execute.
VARIABLES wethOf, held, solved

\* public/app.js, the wallet flow: the globals signer and userAddress,
\* window.pendingTransaction, the calls of simulateTransaction and of
\* executeTransaction that are awaiting (calls with the same arguments at
\* the same point are not told apart), the latest transaction the wallet
\* was asked to send, the way the latest prepareTransaction ended, and
\* whether Cancel was clicked since the confirmation modal was last shown.
VARIABLES signer, userAddress, pendingTransaction, simulating, executing, wallet,
          prepared, cancelled

\* public/app.js, the audio alert: the globals hasPlayedAlert and
\* audioEnabled, what the latest profitability update was, and the alert
\* sounds played since the latest update that was not profitable.
VARIABLES hasPlayedAlert, audioEnabled, lastUpdate, alerts

cacheVars == <<priceCache, clock, inFlight, nCalls, requests, lastCall>>

solverVars == <<wethOf, held, solved>>

walletVars == <<signer, userAddress, pendingTransaction, simulating, executing, wallet,
                prepared, cancelled>>

alertVars == <<hasPlayedAlert, audioEnabled, lastUpdate, alerts>>

\* What the engine's actions leave alone.
others == <<cacheVars, solverVars, walletVars>>

vars == <<engineVars, cacheVars, solverVars, walletVars, alertVars>>

\* The arguments of the current request.
inputs == <<jarTokens, uniAmount, uniPrice, threshold, gasPrice>>

(***************************************************************************)
(* Bounds                                                                  *)
(***************************************************************************)
MaxTokens == 2

(***************************************************************************)
(* JavaScript Number arithmetic                                            *)
(***************************************************************************)
NaN == [m |-> 0, e |-> 0, nan |-> TRUE]

RECURSIVE Pow10(_)
Pow10(n) == IF n <= 0 THEN 1 ELSE 10 * Pow10(n - 1)

RECURSIVE Norm(_, _)
Norm(m, e) ==
    IF m = 0 THEN [m |-> 0, e |-> 0, nan |-> FALSE]
    ELSE IF m % 10 = 0 THEN Norm(m \div 10, e + 1)
    ELSE [m |-> m, e |-> e, nan |-> FALSE]

Num(m, e) == Norm(m, e)

Zero == Num(0, 0)

FromInt(i) == Norm(i, 0)

IsNaN(a) == a.nan

MinOf(x, y) == IF x <= y THEN x ELSE y

Abs(x) == IF x < 0 THEN -x ELSE x

RECURSIVE Digits(_)
Digits(n) == IF n < 10 THEN 1 ELSE 1 + Digits(n \div 10)

\* a + b
Add(a, b) ==
    IF a.nan \/ b.nan THEN NaN
    ELSE IF a.m = 0 THEN b
    ELSE IF b.m = 0 THEN a
    ELSE LET lo == MinOf(a.e, b.e)
         IN  Norm(a.m * Pow10(a.e - lo) + b.m * Pow10(b.e - lo), lo)

Neg(a) == IF a.nan THEN NaN ELSE [m |-> -a.m, e |-> a.e, nan |-> FALSE]

\* a - b
Sub(a, b) == Add(a, Neg(b))

\* a * b
Mul(a, b) == IF a.nan \/ b.nan THEN NaN ELSE Norm(a.m * b.m, a.e + b.e)

\* a / 10^k, exact in decimal
DivPow10(a, k) == IF a.nan THEN NaN ELSE Norm(a.m, a.e - k)

\* a / b.  The quotient is truncated to the digits that fit a 9-digit
\* numerator; a zero divisor gives the non-finite value.
Div(a, b) ==
    IF a.nan \/ b.nan \/ b.m = 0 THEN NaN
    ELSE IF a.m = 0 THEN Zero
    ELSE LET k  == 9 - Digits(Abs(a.m))
             q  == (Abs(a.m) * Pow10(k)) \div Abs(b.m)
             sg == IF (a.m < 0) = (b.m < 0) THEN 1 ELSE -1
         IN  Norm(sg * q, a.e - k - b.e)

\* a > b : false when either side is NaN
Gt(a, b) == IF a.nan \/ b.nan THEN FALSE ELSE Sub(a, b).m > 0

\* a >= b : false when either side is NaN
Ge(a, b) == IF a.nan \/ b.nan THEN FALSE ELSE Sub(a, b).m >= 0

\* truthiness of a Number: 0 and NaN (and undefined) are falsy
Truthy(a) == ~a.nan /\ a.m # 0

\* a || b on Numbers
OrElse(a, b) == IF Truthy(a) THEN a ELSE b

(***************************************************************************)
(* ethers.formatUnits / formatEther and parseFloat                         *)
(***************************************************************************)
\* A decimal string: digits m shifted by e places.
Str(m, e) == [m |-> m, e |-> e]

\* ethers.formatUnits(value, decimals): move the decimal point of the
\* integer string `value` left by `decimals` places.
formatUnits(value, decimals) == Str(value.m, value.e - decimals)

\* ethers.formatEther(value) is formatUnits(value, 18).
formatEther(value) == formatUnits(value, 18)

\* parseFloat(string): the Number the decimal string denotes.
parseFloat(s) == Norm(s.m, s.e)

(***************************************************************************)
(* calculateProfit                                                         *)
(***************************************************************************)
TRANSFER_GAS_COST == 60000

BASE_GAS_COST == 100000

\* SECURITY.DEFAULT_SLIPPAGE_TOLERANCE = 0.5
DEFAULT_SLIPPAGE_TOLERANCE == Num(5, -1)

\* jarTokens.find(t => t.symbol === 'WETH'): the first match, or none
RECURSIVE FindWETH(_, _)
FindWETH(tokens, i) ==
    IF i > Len(tokens) THEN 0
    ELSE IF tokens[i].symbol = "WETH" THEN i
    ELSE FindWETH(tokens, i + 1)

\* Variant: the last token with symbol 'WETH' instead of the first.
EthPrice_lastWETH(tokens) ==
    LET S == { i \in 1..Len(tokens) : tokens[i].symbol = "WETH" }
    IN  IF S = {} THEN Num(2000, 0)
        ELSE OrElse(tokens[CHOOSE i \in S : \A j \in S : j <= i].price, Num(2000, 0))

\* (jarTokens.find(t => t.symbol === 'WETH')?.price || 2000)
EthPrice(tokens) ==
    LET i == FindWETH(tokens, 1)
    IN  IF i = 0 THEN Num(2000, 0) ELSE OrElse(tokens[i].price, Num(2000, 0))

\* gasPriceEth = gasPrice / 1e9
GasPriceEth(gp) == DivPow10(gp, 9)

\* transferCostUSD = (TRANSFER_GAS_COST * gasPriceEth) * ethPrice
TransferCostUSD(gp, ethPrice) ==
    Mul(Mul(FromInt(TRANSFER_GAS_COST), GasPriceEth(gp)), ethPrice)

\* token.decimals || 18   (decimals 0 stands for 0 or a missing field)
DecimalsOf(token) == IF token.decimals # 0 THEN token.decimals ELSE 18

\* balanceEth = parseFloat(ethers.formatUnits(token.balance, token.decimals || 18))
BalanceEth(token) == parseFloat(formatUnits(token.balance, DecimalsOf(token)))

\* Variant: a falsy price is replaced by 1 (`token.price || 1`).
ValueUSD_defaultPrice(token) == Mul(BalanceEth(token), OrElse(token.price, Num(1, 0)))

\* valueUSD = balanceEth * token.price
ValueUSD(token) == Mul(BalanceEth(token), token.price)

\* Variant: `>=` in place of `>`.
IsClaimable_ge(valueUSD, transferCostUSD) == Ge(valueUSD, transferCostUSD)

\* if (valueUSD > transferCostUSD)
IsClaimable(valueUSD, transferCostUSD) == Gt(valueUSD, transferCostUSD)

\* { ...token, balanceEth, valueUSD, netValueUSD: valueUSD - transferCostUSD }
OptimalEntry(token, transferCostUSD) ==
    [balanceEth  |-> BalanceEth(token),
     valueUSD    |-> ValueUSD(token),
     netValueUSD |-> Sub(ValueUSD(token), transferCostUSD)] @@ token

\* { ...token, balanceEth, valueUSD, costToClaimUSD: transferCostUSD }
DustEntry(token, transferCostUSD) ==
    [balanceEth     |-> BalanceEth(token),
     valueUSD       |-> ValueUSD(token),
     costToClaimUSD |-> transferCostUSD] @@ token

\* Variant: the else branch pushes nothing.
LoopBody_dropDust(acc, token, transferCostUSD) ==
    IF IsClaimable(ValueUSD(token), transferCostUSD)
    THEN [optimalTokens        |-> Append(acc.optimalTokens, OptimalEntry(token, transferCostUSD)),
          dustTokens           |-> acc.dustTokens,
          optimizedJarValueUSD |-> Add(acc.optimizedJarValueUSD, ValueUSD(token))]
    ELSE acc

\* Variant: the running total is increased before the test, for every token.
LoopBody_countDust(acc, token, transferCostUSD) ==
    IF IsClaimable(ValueUSD(token), transferCostUSD)
    THEN [optimalTokens        |-> Append(acc.optimalTokens, OptimalEntry(token, transferCostUSD)),
          dustTokens           |-> acc.dustTokens,
          optimizedJarValueUSD |-> Add(acc.optimizedJarValueUSD, ValueUSD(token))]
    ELSE [optimalTokens        |-> acc.optimalTokens,
          dustTokens           |-> Append(acc.dustTokens, DustEntry(token, transferCostUSD)),
          optimizedJarValueUSD |-> Add(acc.optimizedJarValueUSD, OrElse(ValueUSD(token), Zero))]

\* One iteration of `for (const token of jarTokens)`.
LoopBody(acc, token, transferCostUSD) ==
    IF IsClaimable(ValueUSD(token), transferCostUSD)
    THEN [optimalTokens        |-> Append(acc.optimalTokens, OptimalEntry(token, transferCostUSD)),
          dustTokens           |-> acc.dustTokens,
          optimizedJarValueUSD |-> Add(acc.optimizedJarValueUSD, ValueUSD(token))]
    ELSE [optimalTokens        |-> acc.optimalTokens,
          dustTokens           |-> Append(acc.dustTokens, DustEntry(token, transferCostUSD)),
          optimizedJarValueUSD |-> acc.optimizedJarValueUSD]

\* The whole loop, from the first token to the last.
RECURSIVE FilterLoop(_, _, _, _)
FilterLoop(tokens, i, acc, transferCostUSD) ==
    IF i > Len(tokens) THEN acc
    ELSE FilterLoop(tokens, i + 1, LoopBody(acc, tokens[i], transferCostUSD), transferCostUSD)

FilterTokens(tokens, transferCostUSD) ==
    FilterLoop(tokens, 1,
               [optimalTokens |-> <<>>, dustTokens |-> <<>>, optimizedJarValueUSD |-> Zero],
               transferCostUSD)

\* Variant: gas from the raw input length.
EstimatedGas_rawLength(tokens, optimalTokens) ==
    BASE_GAS_COST + (Len(tokens) * TRANSFER_GAS_COST)

\* estimatedGas = BASE_GAS_COST + (optimalTokens.length * TRANSFER_GAS_COST)
EstimatedGas(tokens, optimalTokens) ==
    BASE_GAS_COST + (Len(optimalTokens) * TRANSFER_GAS_COST)

\* totalGasCostEth = (estimatedGas * gasPrice) / 1e9 ; totalGasCostUSD = totalGasCostEth * ethPrice
TotalGasCostUSD(estimatedGas, gp, ethPrice) ==
    Mul(DivPow10(Mul(FromInt(estimatedGas), gp), 9), ethPrice)

\* uniCostUSD = uniAmountEth * uniPrice
UniCostUSD(uniAmountEth, price) == Mul(uniAmountEth, price)

\* Variant: operands swapped.
GrossProfit_swapped(optimizedJarValueUSD, uniCostUSD) == Sub(uniCostUSD, optimizedJarValueUSD)

\* grossProfit = optimizedJarValueUSD - uniCostUSD
GrossProfit(optimizedJarValueUSD, uniCostUSD) == Sub(optimizedJarValueUSD, uniCostUSD)

\* netProfit = grossProfit - totalGasCostUSD
NetProfit(grossProfit, totalGasCostUSD) == Sub(grossProfit, totalGasCostUSD)

\* Variant: no guard against a zero cost.
ProfitPercentage_noGuard(netProfit, uniCostUSD) ==
    Mul(Div(netProfit, uniCostUSD), Num(100, 0))

\* Variant: `>=` in the guard.
ProfitPercentage_ge(netProfit, uniCostUSD) ==
    IF Ge(uniCostUSD, Zero) THEN Mul(Div(netProfit, uniCostUSD), Num(100, 0)) ELSE Zero

\* profitPercentage = uniCostUSD > 0 ? (netProfit / uniCostUSD) * 100 : 0
ProfitPercentage(netProfit, uniCostUSD) ==
    IF Gt(uniCostUSD, Zero) THEN Mul(Div(netProfit, uniCostUSD), Num(100, 0)) ELSE Zero

\* minimumOutputUSD = optimizedJarValueUSD * (1 - SECURITY.DEFAULT_SLIPPAGE_TOLERANCE / 100)
MinimumOutputUSD(optimizedJarValueUSD) ==
    Mul(optimizedJarValueUSD, Sub(Num(1, 0), DivPow10(DEFAULT_SLIPPAGE_TOLERANCE, 2)))

\* Variant: `>=` in place of `>`.
IsProfitable_ge(netProfit) == Ge(netProfit, Zero)

\* isProfitable: netProfit > 0
IsProfitable(netProfit) == Gt(netProfit, Zero)

\* Variant: `>` in place of `>=`.
MeetsThreshold_gt(uniAmountEth, thresholdEth) == Gt(uniAmountEth, thresholdEth)

\* meetsThreshold: uniAmountEth >= thresholdEth
MeetsThreshold(uniAmountEth, thresholdEth) == Ge(uniAmountEth, thresholdEth)

\* The object calculateProfit's promise resolves to.
calculateProfit(amount, price, tokens, thresh, gp) ==
    LET uniAmountEth    == parseFloat(formatEther(amount))
        thresholdEth    == parseFloat(formatEther(thresh))
        uniCostUSD      == UniCostUSD(uniAmountEth, price)
        ethPrice        == EthPrice(tokens)
        transferCostUSD == TransferCostUSD(gp, ethPrice)
        loop            == FilterTokens(tokens, transferCostUSD)
        estimatedGas    == EstimatedGas(tokens, loop.optimalTokens)
        totalGasCostUSD == TotalGasCostUSD(estimatedGas, gp, ethPrice)
        grossProfit     == GrossProfit(loop.optimizedJarValueUSD, uniCostUSD)
        netProfit       == NetProfit(grossProfit, totalGasCostUSD)
    IN  [uniAmount        |-> uniAmountEth,
         uniCostUSD       |-> uniCostUSD,
         totalJarValueUSD |-> loop.optimizedJarValueUSD,
         gasCostUSD       |-> totalGasCostUSD,
         grossProfit      |-> grossProfit,
         netProfit        |-> netProfit,
         profitPercentage |-> ProfitPercentage(netProfit, uniCostUSD),
         minimumOutputUSD |-> MinimumOutputUSD(loop.optimizedJarValueUSD),
         isProfitable     |-> IsProfitable(netProfit),
         meetsThreshold   |-> MeetsThreshold(uniAmountEth, thresholdEth),
         tokenBreakdown   |-> loop.optimalTokens,
         dustTokens       |-> loop.dustTokens,
         estimatedGas     |-> estimatedGas,
         allTokensCount   |-> Len(tokens),
         filteredCount    |-> Len(loop.dustTokens),
         savedGasUSD      |-> Mul(FromInt(Len(loop.dustTokens)), transferCostUSD)]

(***************************************************************************)
(* calculateOptimalBurn                                                    *)
(***************************************************************************)
\* An object without own enumerable properties.
EmptyObject == [k \in {} |-> FALSE]

\* calculateProfit is declared `async`: a call returns a Promise.
AsyncCall(value) == [isPromise |-> TRUE, settled |-> value]

\* { ...x }: the own enumerable properties of x.  A Promise has none; its
\* settled value is reachable only through await / then.
Spread(x) == IF x.isPromise THEN EmptyObject ELSE x.settled

\* const profit = calculateProfit(...); return { optimalBurnAmount, optimalBurnWei, ...profit }
calculateOptimalBurn(tokens, price, thresh, gp) ==
    LET thresholdEth   == parseFloat(formatEther(thresh))
        optimalBurnWei == thresh
        profitCall     == AsyncCall(calculateProfit(optimalBurnWei, price, tokens, thresh, gp))
    IN  Spread(profitCall) @@
        [optimalBurnAmount |-> thresholdEth,
         optimalBurnWei    |-> optimalBurnWei]

(***************************************************************************)
(* formatProfitData                                                        *)
(***************************************************************************)
\* Variant: the digits after the requested places are cut off, not rounded.
toFixed_truncate(x, places) ==
    IF x.nan THEN [nan |-> TRUE, neg |-> FALSE, n |-> 0, places |-> places]
    ELSE LET shift == x.e + places
             mag   == Abs(x.m)
             n     == IF shift >= 0 THEN mag * Pow10(shift)
                      ELSE IF -shift > 9 THEN 0
                      ELSE mag \div Pow10(-shift)
         IN  [nan |-> FALSE, neg |-> x.m < 0, n |-> n, places |-> places]

\* Number.prototype.toFixed(places): the decimal string with `places` digits
\* after the point nearest to x, the larger magnitude on a tie; a minus sign
\* for x < 0 (also in front of "0.00"); "NaN" for NaN.  The string is kept as
\* sign, digits n and places: it reads n / 10^places.
toFixed(x, places) ==
    IF x.nan THEN [nan |-> TRUE, neg |-> FALSE, n |-> 0, places |-> places]
    ELSE LET shift == x.e + places
             mag   == Abs(x.m)
             n     == IF shift >= 0 THEN mag * Pow10(shift)
                      ELSE IF -shift > 9 THEN 0
                      ELSE (mag + (Pow10(-shift) \div 2)) \div Pow10(-shift)
         IN  [nan |-> FALSE, neg |-> x.m < 0, n |-> n, places |-> places]

\* `$${x.toFixed(2)}`
FormatUSD(x) == [prefix |-> "$", num |-> toFixed(x, 2), suffix |-> ""]

\* `${x.toFixed(2)}%`
FormatPercent(x) == [prefix |-> "", num |-> toFixed(x, 2), suffix |-> "%"]

\* x.toFixed(places), undecorated
FormatPlain(x, places) == [prefix |-> "", num |-> toFixed(x, places), suffix |-> ""]

\* Variant: the entry is spread before the formatted fields.
FormatEntry_spread(t) ==
    [balance  |-> FormatPlain(t.balanceEth, 6),
     valueUSD |-> FormatUSD(t.valueUSD)] @@ t

\* t => ({ address, symbol, balance: t.balanceEth.toFixed(6), valueUSD: `$${t.valueUSD.toFixed(2)}` })
FormatEntry(t) ==
    [address  |-> t.address,
     symbol   |-> t.symbol,
     balance  |-> FormatPlain(t.balanceEth, 6),
     valueUSD |-> FormatUSD(t.valueUSD)]

\* Variant: `>=` in place of `>`.
Filtered_ge(profitData) == profitData.filteredCount >= 0

\* filtered: profitData.filteredCount > 0
Filtered(profitData) == profitData.filteredCount > 0

\* The fields on which formatProfitData calls a method (.toFixed, .map):
\* reading one of them from an object that lacks it throws a TypeError.
FormatterReceivers ==
    {"uniAmount", "uniCostUSD", "totalJarValueUSD", "gasCostUSD", "grossProfit",
     "netProfit", "profitPercentage", "minimumOutputUSD", "tokenBreakdown", "savedGasUSD"}

\* The outcome of a call that threw.
Thrown(kind) == [threw |-> kind]

HasThrown(outcome) == "threw" \in DOMAIN outcome

formatProfitData(profitData) ==
    IF ~(FormatterReceivers \subseteq DOMAIN profitData) THEN Thrown("TypeError")
    ELSE [uniAmount        |-> FormatPlain(profitData.uniAmount, 2),
          uniCostUSD       |-> FormatUSD(profitData.uniCostUSD),
          totalJarValueUSD |-> FormatUSD(profitData.totalJarValueUSD),
          gasCostUSD       |-> FormatUSD(profitData.gasCostUSD),
          grossProfit      |-> FormatUSD(profitData.grossProfit),
          netProfit        |-> FormatUSD(profitData.netProfit),
          profitPercentage |-> FormatPercent(profitData.profitPercentage),
          minimumOutputUSD |-> FormatUSD(profitData.minimumOutputUSD),
          isProfitable     |-> profitData.isProfitable,
          meetsThreshold   |-> profitData.meetsThreshold,
          tokenBreakdown   |-> [j \in 1..Len(profitData.tokenBreakdown) |->
                                   FormatEntry(profitData.tokenBreakdown[j])],
          dustCount        |-> profitData.filteredCount,
          savedGas         |-> FormatUSD(profitData.savedGasUSD),
          filtered         |-> Filtered(profitData)]

(***************************************************************************)
(* The browser: updateProfitabilityUI                                      *)
(***************************************************************************)
\* JavaScript values that cross the JSON boundary keep their type.
JsBoolean(b) == [type |-> "boolean", value |-> b]

JsString(str) == [type |-> "string", value |-> str]

\* a === b: same type and same value
StrictEquals(a, b) == a.type = b.type /\ a.value = b.value

\* res.json(...) then response.json(): a boolean stays a boolean.
JsonValue(body) == [isProfitable |-> JsBoolean(body.isProfitable)]

\* if (data.isProfitable === 'true') positive styling, else negative
updateProfitabilityUI(data) ==
    IF StrictEquals(data.isProfitable, JsString("true"))
    THEN [netProfitClass |-> "profit-val positive"]
    ELSE [netProfitClass |-> "profit-val negative"]

(***************************************************************************)
(* Inputs                                                                  *)
(***************************************************************************)
Token(address, symbol, balance, decimals, price) ==
    [address |-> address, symbol |-> symbol, balance |-> balance,
     decimals |-> decimals, price |-> price]

\* Token balance records as the balance reader produces them.
TokenCatalogue ==
    { Token("0xa0b8", "USDC", Str(500000000, 0), 6, Num(1, 0)),   \* $500
      Token("0xc02a", "WETH", Str(2, 18), 18, Num(3000, 0)),      \* $6000
      Token("0xc02a", "WETH", Str(2, 15), 18, Num(3000, 0)),      \* $6, 0.002 WETH
      Token("0xc02a", "WETH", Str(1, 18), 18, Zero),              \* WETH, price 0
      Token("0x6b17", "DAI",  Str(24, 17), 0, Num(1, 0)),         \* $2.40, decimals missing
      Token("0x5149", "LINK", Str(36, 17), 18, Num(1, 0)),        \* $3.60
      Token("0x95ad", "SHIB", Str(1, 17), 18, Num(1, 0)),         \* $0.10
      Token("0x6982", "PEPE", Str(1, 21), 18, Zero),              \* price 0
      Token("0x4fba", "0x4fba...", Str(3, 18), 18, NaN) }         \* price missing

TokenLists == UNION { [1..n -> TokenCatalogue] : n \in 0..MaxTokens }

GasPrices == { Zero, Num(20, 0) }

UniPrices == { Zero, Num(75, -1) }

\* factors by which a second request raises one price
RaiseFactors == { Num(15, -1), Num(2, 0) }

\* wei amounts: 0, 1.5 UNI, 4000 UNI
WeiAmounts == { Str(0, 0), Str(15, 17), Str(4, 21) }

(***************************************************************************)
(* utils/priceFeeds.js: getMultipleTokenPrices, getTokenPrice              *)
(***************************************************************************)
\* const CACHE_DURATION = 60000
CACHE_DURATION == 60000

\* Milliseconds between two readings of Date.now() that the model tells
\* apart: an entry is seen at the ages 0, half of CACHE_DURATION, CACHE_DURATION...
TickMs == CACHE_DURATION \div 2

\* The clock is followed for MaxTicks ticks.
MaxTicks == 2

\* Calls of getMultipleTokenPrices in one behaviour.
MaxCalls == 2

\* String.prototype.toLowerCase on the addresses in use (CONTRACTS.WETH is
\* written in checksum case, with capitals).
toLowerCase(address) ==
    CASE address = "0xC02a" -> "0xc02a"
      [] OTHER -> address

\* Argument lists of getMultipleTokenPrices: [CONTRACTS.WETH], [CONTRACTS.UNI_TOKEN]
\* (getTokenPrice, getUniPrice) and a jar's address list.
AddressLists == { <<"0xC02a">>, <<"0x1f98">>, <<"0xC02a", "0x1f98">> }

\* usd prices the price service may answer with
FeedPrices == { Num(3000, 0), Num(3100, 0) }

\* priceCache.get(addr): the entry, or undefined
HasEntry(cache, addr) == addr \in DOMAIN cache

\* Variant: an entry of exactly CACHE_DURATION still counts as fresh.
IsFresh_inclusive(cache, addr, now) ==
    HasEntry(cache, addr) /\ now - cache[addr].timestamp <= CACHE_DURATION

\* cached && (now - cached.timestamp < CACHE_DURATION)
IsFresh(cache, addr, now) ==
    HasEntry(cache, addr) /\ now - cache[addr].timestamp < CACHE_DURATION

\* obj[key] = value on an object held as a function
SetKey(obj, key, value) == (key :> value) @@ obj

\* tokenAddresses.forEach(...): fills prices from fresh entries and collects
\* the other addresses, in order, in toFetch.
RECURSIVE CheckCache(_, _, _, _, _)
CheckCache(addresses, i, cache, now, acc) ==
    IF i > Len(addresses) THEN acc
    ELSE LET addr == toLowerCase(addresses[i])
         IN  IF IsFresh(cache, addr, now)
             THEN CheckCache(addresses, i + 1, cache, now,
                             [acc EXCEPT !.prices = SetKey(@, addr, cache[addr].price)])
             ELSE CheckCache(addresses, i + 1, cache, now,
                             [acc EXCEPT !.toFetch = Append(@, addr)])

\* The success branch, toFetch.forEach(...): a price in the response goes to
\* the result and to the cache with the call's `now`; without one, the old
\* entry's price, if any, goes to the result.
RECURSIVE StoreFetched(_, _, _, _, _)
StoreFetched(toFetch, i, data, now, acc) ==
    IF i > Len(toFetch) THEN acc
    ELSE LET addr == toFetch[i]
         IN  IF addr \in DOMAIN data
             THEN StoreFetched(toFetch, i + 1, data, now,
                      [prices |-> SetKey(acc.prices, addr, data[addr]),
                       cache  |-> SetKey(acc.cache, addr,
                                         [price |-> data[addr], timestamp |-> now])])
             ELSE IF HasEntry(acc.cache, addr)
             THEN StoreFetched(toFetch, i + 1, data, now,
                      [acc EXCEPT !.prices = SetKey(@, addr, acc.cache[addr].price)])
             ELSE StoreFetched(toFetch, i + 1, data, now, acc)

\* Variant: the catch branch gives nothing back.
FallbackToCache_nothing(toFetch, i, cache, prices) == prices

\* The catch branch, toFetch.forEach(...): the old entry's price, if any.
RECURSIVE FallbackToCache(_, _, _, _)
FallbackToCache(toFetch, i, cache, prices) ==
    IF i > Len(toFetch) THEN prices
    ELSE IF HasEntry(cache, toFetch[i])
    THEN FallbackToCache(toFetch, i + 1, cache, SetKey(prices, toFetch[i], cache[toFetch[i]].price))
    ELSE FallbackToCache(toFetch, i + 1, cache, prices)

\* getTokenPrice: prices[tokenAddress.toLowerCase()] || 0
getTokenPrice(prices, tokenAddress) ==
    IF toLowerCase(tokenAddress) \in DOMAIN prices
    THEN OrElse(prices[toLowerCase(tokenAddress)], Zero)
    ELSE Zero

\* What the price service may do with a request for toFetch: fail (or time
\* out), or answer with usd prices for some of the addresses.
Responses(toFetch) ==
    LET S == { toFetch[j] : j \in 1..Len(toFetch) }
    IN  { [failed |-> TRUE, data |-> EmptyObject] } \cup
        { [failed |-> FALSE, data |-> d] : d \in UNION { [T -> FeedPrices] : T \in SUBSET S } }

\* No call of getMultipleTokenPrices made yet.
NoCall == [id |-> 0, requested |-> <<>>, now |-> 0, toFetch |-> <<>>,
           prices |-> EmptyObject, data |-> EmptyObject, settled |-> "no"]

\* The module as loaded: const priceCache = new Map().
CacheLoaded ==
    /\ priceCache = EmptyObject
    /\ clock = 0
    /\ inFlight = {}
    /\ nCalls = 0
    /\ requests = <<>>
    /\ lastCall = NoCall

(***************************************************************************)
(* contracts/EmberSolver.sol: execute, _swapToWeth, withdraw               *)
(***************************************************************************)
\* Tokens other than WETH that the jar may hand over.
DustTokens == { "DAI", "SHIB" }

\* Longest `tokens` argument of execute.
MaxSolverTokens == 2

\* Leftover dust of one token followed in the contract.
MaxHeld == 2

\* Total WETH followed in the two accounts.
MaxWeth == 3

\* `tokens` arguments: the distinct token addresses found in the jar, WETH
\* included, in any order.
SolverTokenLists ==
    { l \in UNION { [1..n -> DustTokens \cup {"WETH"}] : n \in 0..MaxSolverTokens } :
          \A i, j \in 1..Len(l) : i # j => l[i] # l[j] }

\* minProfitETH arguments
MinProfits == { 0, 2 }

\* What router.exactInputSingle does with a token: it reverts, or takes the
\* whole amount and pays `out` WETH (amountOutMinimum is 0).
SwapOutcomes ==
    { [reverts |-> TRUE, out |-> 0] } \cup { [reverts |-> FALSE, out |-> 2] }

\* What the burn hands to the contract: amounts of the jar's tokens.
Claims ==
    { [DAI |-> 0, SHIB |-> 0, WETH |-> 0],
      [DAI |-> 1, SHIB |-> 1, WETH |-> 1] }

\* The external calls a transaction does not reach are not made: nothing is
\* claimed, no pool is asked.
NoClaim == [DAI |-> 0, SHIB |-> 0, WETH |-> 0]

NoSwaps == [t \in DustTokens |-> [reverts |-> TRUE, out |-> 0]]

\* A swap that reverted: the try/catch of _swapToWeth swallows it.
SwapFailed(swapOut) == swapOut.reverts

\* Variant: execute without the require of line 82.
ProfitCheck_missing(gain, minProfitETH) == TRUE

\* require(profit >= minProfitETH, "Profit below threshold")
ProfitCheck(gain, minProfitETH) == gain >= minProfitETH

\* The sweep-and-swap loop, lines 68-76, on the contract's balances.
RECURSIVE SweepAndSwap(_, _, _, _)
SweepAndSwap(tokens, i, swaps, acc) ==
    IF i > Len(tokens) THEN acc
    ELSE LET token == tokens[i]
         IN  IF token = "WETH" \/ acc.held[token] = 0
             THEN SweepAndSwap(tokens, i + 1, swaps, acc)
             ELSE IF SwapFailed(swaps[token])
             THEN SweepAndSwap(tokens, i + 1, swaps, [acc EXCEPT !.failed = @ + 1])
             ELSE SweepAndSwap(tokens, i + 1, swaps,
                               [acc EXCEPT !.held[token] = 0, !.weth = @ + swaps[token].out])

\* execute(uniAmount, tokens, minProfitETH) sent by caller: the call's
\* record, with the amount of the WETH transfer to owner() at line 85, and
\* the balances it leaves (those before it when it reverts).
\* uniOk: transferFrom returned true; burnOk: burn did not revert.
execute(caller, tokens, minProfitETH, uniOk, burnOk, claim, swaps, weth, balances) ==
    LET afterBurn   == [t \in DustTokens |-> balances[t] + claim[t]]
        startEthBal == weth["solver"] + claim["WETH"]
        swept       == SweepAndSwap(tokens, 1, swaps,
                                    [held |-> afterBurn, weth |-> startEthBal, failed |-> 0])
        endEthBal   == swept.weth
        underflow   == endEthBal < startEthBal
        gain      == endEthBal - startEthBal
        reverted    == \/ caller # "owner"
                       \/ ~uniOk
                       \/ ~burnOk
                       \/ underflow
                       \/ ~ProfitCheck(gain, minProfitETH)
        call        == [caller |-> caller, minProfitETH |-> minProfitETH, uniOk |-> uniOk,
                        burnOk |-> burnOk, startEthBal |-> startEthBal,
                        endEthBal |-> endEthBal, failedSwaps |-> swept.failed,
                        reverted |-> reverted,
                        transferred |-> IF reverted THEN 0 ELSE gain]
    IN  IF reverted
        THEN [call |-> call, weth |-> weth, held |-> balances]
        ELSE [call |-> call,
              weth |-> [weth EXCEPT !["solver"] = endEthBal - gain, !["owner"] = @ + gain],
              held |-> swept.held]

\* No call of execute made yet.
NoExecute == [caller |-> "none", minProfitETH |-> 0, uniOk |-> FALSE, burnOk |-> FALSE,
              startEthBal |-> 0, endEthBal |-> 0, failedSwaps |-> 0, reverted |-> TRUE,
              transferred |-> 0]

\* The contract as deployed.
SolverDeployed ==
    /\ wethOf = [a \in {"solver", "owner"} |-> 0]
    /\ held = [t \in DustTokens |-> 0]
    /\ solved = NoExecute

(***************************************************************************)
(* public/app.js: prepareTransaction, simulateTransaction,                 *)
(* executeTransaction, the audio alert                                     *)
(***************************************************************************)
\* const DEBUG_MODE = false
DEBUG_MODE == FALSE

\* Accounts of the wallet.
Accounts == { "0xA11c", "0xB0b0" }

\* null
null == [null |-> TRUE]

\* A response body with success: false (the servers' catch branches).
FailedBody == [success |-> FALSE]

\* Bodies of /api/jar-balance as far as prepareTransaction reads them.
JarBodies ==
    { FailedBody,
      [success |-> TRUE, tokens |-> << [address |-> "0xa0b8"], [address |-> "0x6982"] >>] }

\* Bodies of /api/threshold: the threshold in wei, 4000 UNI.
ThresholdBodies == { FailedBody, [success |-> TRUE, threshold |-> Str(4, 21)] }

\* Bodies of /api/profitability as the handler builds them at lines 223-229:
\* isProfitable a boolean, optimalTokens an array of addresses.
ProfitabilityBodies ==
    { FailedBody } \cup
    { [success |-> TRUE, isProfitable |-> JsBoolean(b), optimalTokens |-> l] :
          b \in BOOLEAN, l \in { <<>>, <<"0xa0b8", "0xc02a">> } }

\* UNI balances and allowances of the connected account, in wei.
WalletAmounts == { Str(0, 0), Str(5, 21) }

\* BigNumber.lt on decimal strings of wei
Lt(a, b) == Gt(parseFloat(b), parseFloat(a))

\* prepareTransaction up to the call of simulateTransaction: how it ends,
\* and the arguments of the simulation when it gets there.  The nonce
\* (Date.now()) is passed through to release untouched and is left out.
prepareTransaction(hasSigner, jarData, thresholdData, profitabilityData, account) ==
    IF ~hasSigner THEN [outcome |-> "connect first"]
    ELSE IF ~jarData.success \/ ~thresholdData.success \/ ~profitabilityData.success
    THEN [outcome |-> "fetch failed"]
    ELSE LET tokenAddresses ==
                 IF "optimalTokens" \in DOMAIN profitabilityData
                 THEN profitabilityData.optimalTokens
                 ELSE [i \in 1..Len(jarData.tokens) |-> jarData.tokens[i].address]
         IN  IF Len(tokenAddresses) = 0 THEN [outcome |-> "nothing to claim"]
             ELSE [outcome |-> "simulate",
                   call    |-> [assets |-> tokenAddresses, recipient |-> account,
                                threshold |-> thresholdData.threshold]]

\* simulateTransaction(nonce, assets, recipient, threshold) given what the
\* chain answers: threw stands for any of the awaited calls throwing.
simulateTransaction(call, uniBalance, allowance, gasEstimated, threw) ==
    IF threw THEN [success |-> FALSE]
    ELSE IF DEBUG_MODE THEN call @@ [success |-> TRUE, needsApproval |-> TRUE]
    ELSE IF Lt(uniBalance, call.threshold) THEN [success |-> FALSE]
    ELSE IF ~gasEstimated THEN [success |-> FALSE]
    ELSE call @@ [success |-> TRUE, needsApproval |-> Lt(allowance, call.threshold)]

\* Calls of simulateTransaction, and calls of executeTransaction, that are
\* awaiting at the same time.
MaxAwaiting == 1

\* A transaction the wallet is asked to send by a call of
\* executeTransaction working on tx: approve(FIREPIT, tx.threshold) or
\* release(tx.nonce, tx.assets, tx.recipient); with it, what that call has
\* seen of its approval, the account connected at that moment, and whether
\* Cancel had been clicked.
WalletRequest(kind, tx, approval, account, afterCancel) ==
    [kind |-> kind, amount |-> tx.threshold, assets |-> tx.assets,
     recipient |-> tx.recipient, needsApproval |-> tx.needsApproval,
     approval |-> approval, account |-> account, afterCancel |-> afterCancel]

\* Nothing asked of the wallet.
NothingSent ==
    [kind |-> "none", amount |-> Str(0, 0), assets |-> <<>>, recipient |-> "null",
     needsApproval |-> FALSE, approval |-> "none", account |-> "null", afterCancel |-> FALSE]

\* Variant: release is sent without the approval.
FirstRequest_releaseOnly(tx) == "release"

\* Step 1 / step 2 of executeTransaction: the first thing it asks the wallet.
FirstRequest(tx) == IF tx.needsApproval THEN "approve" ELSE "release"

\* playSound(): silent unless audio is enabled (isTest = false).
playSound(enabled) == enabled

\* The wrapper of updateProfitabilityUI installed at lines 511-523: the new
\* hasPlayedAlert and whether the alert sounds.
AlertOnUpdate(data, played, enabled) ==
    IF StrictEquals(data.isProfitable, JsString("true"))
    THEN [hasPlayedAlert |-> TRUE, sound |-> ~played /\ playSound(enabled)]
    ELSE [hasPlayedAlert |-> FALSE, sound |-> FALSE]

\* An update that reports a profitable burn, the way the server reports it.
ReportsProfit(data) == data.isProfitable = JsBoolean(TRUE)

\* The page as loaded.
PageLoaded ==
    /\ signer = FALSE
    /\ userAddress = "null"
    /\ pendingTransaction = null
    /\ simulating = {}
    /\ executing = {}
    /\ cancelled = FALSE
    /\ prepared = [outcome |-> "none"]
    /\ hasPlayedAlert = FALSE
    /\ audioEnabled = FALSE
    /\ lastUpdate = "none"
    /\ alerts = 0

\* Nothing asked of the wallet yet.
WalletUntouched ==
    /\ wallet = NothingSent

(***************************************************************************)
(* State machine                                                           *)
(***************************************************************************)
\* The state before any call, whatever the arguments are.
Idle ==
    /\ pc = "ready"
    /\ profit = EmptyObject
    /\ optimal = EmptyObject
    /\ raised = [index |-> 0, price |-> Zero]
    /\ profit2 = EmptyObject
    /\ formatted = EmptyObject
    /\ ui = [netProfitClass |-> "unset"]
    /\ response = [status |-> 0]

\* Requests with valid arguments: finite, non-negative prices and gas price.
Init ==
    /\ jarTokens \in TokenLists
    /\ uniAmount \in WeiAmounts
    /\ uniPrice \in UniPrices
    /\ threshold \in WeiAmounts
    /\ gasPrice \in GasPrices
    /\ Idle
    /\ CacheLoaded
    /\ SolverDeployed
    /\ PageLoaded
    /\ WalletUntouched

\* Requests whose gas price or resource price may be NaN, or the gas price
\* negative.
InitAny ==
    /\ jarTokens \in TokenLists
    /\ uniAmount \in WeiAmounts
    /\ uniPrice \in UniPrices \cup {NaN}
    /\ threshold \in WeiAmounts
    /\ gasPrice \in GasPrices \cup {NaN, Num(-20, 0)}
    /\ Idle
    /\ CacheLoaded
    /\ SolverDeployed
    /\ PageLoaded
    /\ WalletUntouched

\* Variant: the loop writes valueUSD into the caller's token records.
CallCalculateProfit_inPlace ==
    /\ pc = "ready"
    /\ profit' = calculateProfit(uniAmount, uniPrice, jarTokens, threshold, gasPrice)
    /\ jarTokens' = [i \in 1..Len(jarTokens) |->
                        [valueUSD |-> ValueUSD(jarTokens[i])] @@ jarTokens[i]]
    /\ pc' = "profit"
    /\ UNCHANGED <<others, alertVars, uniAmount, uniPrice, threshold, gasPrice, optimal, raised, profit2,
                   formatted, ui, response>>

\* await calculateProfit(uniAmount, uniPrice, jarTokens, threshold, gasPrice)
CallCalculateProfit ==
    /\ pc = "ready"
    /\ profit' = calculateProfit(uniAmount, uniPrice, jarTokens, threshold, gasPrice)
    /\ pc' = "profit"
    /\ UNCHANGED <<others, alertVars, inputs, optimal, raised, profit2, formatted, ui, response>>

\* The token list with the price of token i replaced by price.
WithPrice(tokens, i, price) == [tokens EXCEPT ![i].price = price]

\* A second call of calculateProfit whose input differs from the first only
\* in the price of one token that the first call found claimable: the price
\* is multiplied by a factor above 1.
CallCalculateProfitRaised ==
    /\ pc = "profit"
    /\ \E i \in 1..Len(jarTokens), factor \in RaiseFactors :
          /\ IsClaimable(ValueUSD(jarTokens[i]), TransferCostUSD(gasPrice, EthPrice(jarTokens)))
          /\ raised' = [index |-> i, price |-> Mul(jarTokens[i].price, factor)]
          /\ profit2' = calculateProfit(uniAmount, uniPrice,
                                        WithPrice(jarTokens, i, Mul(jarTokens[i].price, factor)),
                                        threshold, gasPrice)
    /\ pc' = "raised"
    /\ UNCHANGED <<others, alertVars, inputs, profit, optimal, formatted, ui, response>>

\* calculateOptimalBurn(jarTokens, uniPrice, threshold, gasPrice)
CallCalculateOptimalBurn ==
    /\ pc = "ready"
    /\ optimal' = calculateOptimalBurn(jarTokens, uniPrice, threshold, gasPrice)
    /\ pc' = "burn"
    /\ UNCHANGED <<others, alertVars, inputs, profit, raised, profit2, formatted, ui, response>>

\* formatProfitData(await calculateProfit(...))
CallFormatProfitData ==
    /\ pc = "profit"
    /\ formatted' = formatProfitData(profit)
    /\ pc' = "formatted"
    /\ UNCHANGED <<others, alertVars, inputs, profit, optimal, raised, profit2, ui, response>>

\* The browser receives the formatted object as JSON and renders it.
UpdateProfitabilityUI ==
    /\ pc = "formatted"
    /\ ui' = updateProfitabilityUI(JsonValue(formatted))
    /\ LET alert == AlertOnUpdate(JsonValue(formatted), hasPlayedAlert, audioEnabled)
       IN  /\ hasPlayedAlert' = alert.hasPlayedAlert
           /\ alerts' = IF ReportsProfit(JsonValue(formatted))
                        THEN alerts + (IF alert.sound THEN 1 ELSE 0) ELSE 0
    /\ lastUpdate' = IF ReportsProfit(JsonValue(formatted)) THEN "profitable" ELSE "not profitable"
    /\ pc' = "ui"
    /\ UNCHANGED <<others, audioEnabled, inputs, profit, optimal, raised, profit2, formatted,
                   response>>

\* The body of the /api/profitability response, or the catch branch when
\* formatProfitData or optimal.tokenBreakdown.map throws.
profitabilityResponse(opt, gp) ==
    IF HasThrown(formatProfitData(opt)) \/ "tokenBreakdown" \notin DOMAIN opt
    THEN [status |-> 500, success |-> FALSE, error |-> "Failed"]
    ELSE [status        |-> 200,
          success       |-> TRUE,
          data          |-> formatProfitData(opt),
          optimalTokens |-> [j \in 1..Len(opt.tokenBreakdown) |-> opt.tokenBreakdown[j].address],
          gasPriceGwei  |-> gp]

\* app.get('/api/profitability'): the fetched data goes straight to
\* calculateOptimalBurn, whose result is formatted and sent.
GetProfitability ==
    /\ pc = "ready"
    /\ optimal' = calculateOptimalBurn(jarTokens, uniPrice, threshold, gasPrice)
    /\ response' = profitabilityResponse(
                       calculateOptimalBurn(jarTokens, uniPrice, threshold, gasPrice), gasPrice)
    /\ pc' = "responded"
    /\ UNCHANGED <<others, alertVars, inputs, profit, raised, profit2, formatted, ui>>

Next ==
    \/ CallCalculateProfit
    \/ CallCalculateProfitRaised
    \/ CallCalculateOptimalBurn
    \/ CallFormatProfitData
    \/ UpdateProfitabilityUI
    \/ GetProfitability

Spec == Init /\ [][Next]_vars

SpecAny == InitAny /\ [][Next]_vars

(***************************************************************************)
(* The price cache as a state machine                                      *)
(***************************************************************************)
\* No profitability request is being served.
NoRequest ==
    /\ jarTokens = <<>>
    /\ uniAmount = Str(0, 0)
    /\ uniPrice = Zero
    /\ threshold = Str(0, 0)
    /\ gasPrice = Zero

InitCache == NoRequest /\ Idle /\ CacheLoaded /\ SolverDeployed /\ PageLoaded /\ WalletUntouched

\* getMultipleTokenPrices(addresses) up to its return at line 34 or its
\* await at line 38.
GetMultipleTokenPrices ==
    /\ nCalls < MaxCalls
    /\ \E addresses \in AddressLists :
          LET checked == CheckCache(addresses, 1, priceCache, clock,
                                    [prices |-> EmptyObject, toFetch |-> <<>>])
              call == [id |-> nCalls + 1, requested |-> addresses, now |-> clock,
                       toFetch |-> checked.toFetch, prices |-> checked.prices,
                       data |-> EmptyObject, settled |-> "no"]
          IN  IF checked.toFetch = <<>>
              THEN /\ lastCall' = [call EXCEPT !.settled = "cached"]
                   /\ UNCHANGED <<inFlight, requests>>
              ELSE /\ inFlight' = inFlight \cup {call}
                   /\ requests' = Append(requests, checked.toFetch)
                   /\ UNCHANGED lastCall
    /\ nCalls' = nCalls + 1
    /\ UNCHANGED <<engineVars, solverVars, walletVars, alertVars, priceCache, clock>>

\* The request of one pending call settles (in any order among the pending
\* calls) and the call runs to its return at line 70.
ResponseArrives ==
    /\ \E call \in inFlight : \E resp \in Responses(call.toFetch) :
          /\ inFlight' = inFlight \ {call}
          /\ IF resp.failed
             THEN /\ lastCall' = [call EXCEPT
                                   !.prices = FallbackToCache(call.toFetch, 1, priceCache, call.prices),
                                   !.settled = "failed"]
                  /\ UNCHANGED priceCache
             ELSE LET stored == StoreFetched(call.toFetch, 1, resp.data, call.now,
                                             [prices |-> call.prices, cache |-> priceCache])
                  IN  /\ lastCall' = [call EXCEPT !.prices = stored.prices,
                                                 !.data = resp.data,
                                                 !.settled = "fetched"]
                      /\ priceCache' = stored.cache
    /\ UNCHANGED <<engineVars, solverVars, walletVars, alertVars, clock, nCalls, requests>>

\* Date.now() moves on.
Tick ==
    /\ clock < MaxTicks * TickMs
    /\ clock' = clock + TickMs
    /\ UNCHANGED <<engineVars, solverVars, walletVars, alertVars, priceCache, inFlight, nCalls, requests, lastCall>>

NextCache ==
    \/ GetMultipleTokenPrices
    \/ ResponseArrives
    \/ Tick

SpecCache == InitCache /\ [][NextCache]_vars

(***************************************************************************)
(* The solver contract as a state machine                                  *)
(***************************************************************************)
InitSolver == NoRequest /\ Idle /\ CacheLoaded /\ SolverDeployed /\ PageLoaded /\ WalletUntouched

\* One transaction calling execute; a revert leaves every balance as it was.
\* The outcomes of the external calls (transferFrom, burn, the router) are
\* drawn only as far as the transaction gets.
Execute ==
    /\ wethOf["solver"] + wethOf["owner"] <= MaxWeth
    /\ \A t \in DustTokens : held[t] < MaxHeld
    /\ \E caller \in {"owner", "stranger"}, tokens \in SolverTokenLists,
          minProfitETH \in MinProfits :
       \E uniOk \in (IF caller = "owner" THEN BOOLEAN ELSE {FALSE}) :
       \E burnOk \in (IF uniOk THEN BOOLEAN ELSE {FALSE}) :
       \E claim \in (IF burnOk THEN Claims ELSE {NoClaim}),
          swaps \in (IF burnOk THEN [DustTokens -> SwapOutcomes] ELSE {NoSwaps}) :
          LET result == execute(caller, tokens, minProfitETH, uniOk, burnOk, claim, swaps,
                                wethOf, held)
          IN  /\ solved' = result.call
              /\ wethOf' = result.weth
              /\ held' = result.held
    /\ UNCHANGED <<engineVars, cacheVars, walletVars, alertVars>>

\* withdraw(token) by the owner: the contract's whole balance of the token.
Withdraw ==
    /\ \E token \in DustTokens \cup {"WETH"} :
          IF token = "WETH"
          THEN /\ wethOf["solver"] > 0
               /\ wethOf' = [wethOf EXCEPT !["solver"] = 0, !["owner"] = @ + wethOf["solver"]]
               /\ UNCHANGED held
          ELSE /\ held[token] > 0
               /\ held' = [held EXCEPT ![token] = 0]
               /\ UNCHANGED wethOf
    /\ UNCHANGED <<engineVars, cacheVars, walletVars, alertVars, solved>>

NextSolver ==
    \/ Execute
    \/ Withdraw

SpecSolver == InitSolver /\ [][NextSolver]_vars

(***************************************************************************)
(* The page as a state machine                                             *)
(***************************************************************************)
InitBrowser ==
    NoRequest /\ Idle /\ CacheLoaded /\ SolverDeployed /\ PageLoaded /\ WalletUntouched

\* The server side, which the steps of the page leave alone.
outside == <<jarTokens, uniAmount, uniPrice, threshold, gasPrice, pc, profit, optimal,
             raised, profit2, formatted, response, cacheVars, solverVars>>

\* connectWallet(): eth_requestAccounts answers with an account.
ConnectWallet ==
    /\ \E account \in Accounts : userAddress' = account
    /\ signer' = TRUE
    /\ UNCHANGED <<outside, ui, alertVars, pendingTransaction, simulating, executing, wallet,
                   prepared, cancelled>>

\* handleAccountsChanged(accounts), registered by connectWallet: another
\* account becomes userAddress; an empty list reloads the page, which
\* drops every global and every call that was awaiting.
AccountsChanged ==
    /\ signer
    /\ \E accounts \in { <<>> } \cup { <<a>> : a \in Accounts } :
          IF Len(accounts) = 0
          THEN /\ signer' = FALSE
               /\ userAddress' = "null"
               /\ pendingTransaction' = null
               /\ simulating' = {}
               /\ executing' = {}
               /\ cancelled' = FALSE
               /\ prepared' = [outcome |-> "none"]
               /\ hasPlayedAlert' = FALSE
               /\ audioEnabled' = FALSE
               /\ lastUpdate' = "none"
               /\ alerts' = 0
               /\ ui' = [netProfitClass |-> "unset"]
          ELSE /\ userAddress' = accounts[1]
               /\ UNCHANGED <<ui, alertVars, signer, pendingTransaction, simulating, executing,
                              prepared, cancelled>>
    /\ UNCHANGED <<outside, wallet>>

\* prepareTransaction() with the three bodies it is given, up to the call
\* of simulateTransaction.
PrepareWith(jarData, thresholdData, profitabilityData) ==
    LET result == prepareTransaction(signer, jarData, thresholdData, profitabilityData,
                                     userAddress)
    IN  /\ prepared' = result
        /\ IF result.outcome = "simulate"
           THEN /\ Cardinality(simulating) < MaxAwaiting
                /\ simulating' = simulating \cup { result.call }
           ELSE UNCHANGED simulating
        /\ UNCHANGED <<outside, ui, alertVars, signer, userAddress, pendingTransaction,
                       executing, wallet, cancelled>>

\* A click on executeBtn, the server answering with any of its bodies.
PrepareTransaction ==
    \E jarData \in JarBodies, thresholdData \in ThresholdBodies,
       profitabilityData \in ProfitabilityBodies :
        PrepareWith(jarData, thresholdData, profitabilityData)

\* simulateTransaction returns to prepareTransaction, which shows the
\* confirmation modal (and stores the pending transaction) on success.
SimulationReturns ==
    /\ \E call \in simulating :
       \E uniBalance \in WalletAmounts, allowance \in WalletAmounts,
          gasEstimated \in BOOLEAN, threw \in BOOLEAN :
          LET result == simulateTransaction(call, uniBalance, allowance, gasEstimated, threw)
          IN  /\ simulating' = simulating \ { call }
              /\ IF result.success
                 THEN /\ pendingTransaction' = result
                      /\ cancelled' = FALSE
                 ELSE UNCHANGED <<pendingTransaction, cancelled>>
    /\ UNCHANGED <<outside, ui, alertVars, signer, userAddress, executing, wallet, prepared>>

\* A click on cancelBtn: closeModal().
ClickCancel ==
    /\ pendingTransaction' = null
    /\ cancelled' = TRUE
    /\ UNCHANGED <<outside, ui, alertVars, signer, userAddress, simulating, executing, wallet, prepared>>

\* A click on confirmBtn: executeTransaction() up to its first await.
ClickConfirm ==
    /\ IF pendingTransaction = null
       THEN UNCHANGED <<executing, wallet>>
       ELSE /\ Cardinality(executing) < MaxAwaiting
            /\ executing' = executing \cup
                   { [tx |-> pendingTransaction, stage |-> FirstRequest(pendingTransaction),
                      approval |-> "none"] }
            /\ wallet' = WalletRequest(FirstRequest(pendingTransaction), pendingTransaction,
                                       "none", userAddress, cancelled)
    /\ UNCHANGED <<outside, ui, alertVars, signer, userAddress, pendingTransaction, simulating,
                   prepared, cancelled>>

\* The approval of one executeTransaction call is confirmed, and the call
\* goes on to send release; or it is rejected or fails, and the call ends
\* in its catch.
ApprovalSettles ==
    /\ \E e \in executing : \E confirmed \in BOOLEAN :
          /\ e.stage = "approve"
          /\ IF confirmed
             THEN /\ executing' = (executing \ {e}) \cup
                                  { [e EXCEPT !.stage = "release", !.approval = "confirmed"] }
                  /\ wallet' = WalletRequest("release", e.tx, "confirmed", userAddress, cancelled)
             ELSE /\ executing' = executing \ {e}
                  /\ UNCHANGED wallet
    /\ UNCHANGED <<outside, ui, alertVars, signer, userAddress, pendingTransaction, simulating,
                   prepared, cancelled>>

\* The release of one executeTransaction call is submitted, and the call
\* closes the modal; or it is rejected, and the call ends in its catch.
ReleaseSettles ==
    /\ \E e \in executing : \E submitted \in BOOLEAN :
          /\ e.stage = "release"
          /\ executing' = executing \ {e}
          /\ IF submitted
             THEN pendingTransaction' = null
             ELSE UNCHANGED pendingTransaction
    /\ UNCHANGED <<outside, ui, alertVars, signer, userAddress, simulating, wallet,
                   prepared, cancelled>>

\* A click on audioToggle.
ToggleAudio ==
    /\ audioEnabled' = ~audioEnabled
    /\ UNCHANGED <<outside, ui, walletVars, hasPlayedAlert, lastUpdate, alerts>>

\* loadProfitability(): the body is rendered when it reports success, by
\* updateProfitabilityUI as wrapped at lines 511-523.
LoadProfitability ==
    /\ \E data \in ProfitabilityBodies :
          IF data.success
          THEN LET alert == AlertOnUpdate(data, hasPlayedAlert, audioEnabled)
               IN  /\ ui' = updateProfitabilityUI(data)
                   /\ hasPlayedAlert' = alert.hasPlayedAlert
                   /\ alerts' = IF ReportsProfit(data)
                                THEN alerts + (IF alert.sound THEN 1 ELSE 0) ELSE 0
                   /\ lastUpdate' = IF ReportsProfit(data) THEN "profitable" ELSE "not profitable"
          ELSE UNCHANGED <<ui, hasPlayedAlert, alerts, lastUpdate>>
    /\ UNCHANGED <<outside, walletVars, audioEnabled>>

NextBrowser ==
    \/ ConnectWallet
    \/ AccountsChanged
    \/ PrepareTransaction
    \/ SimulationReturns
    \/ ClickCancel
    \/ ClickConfirm
    \/ ApprovalSettles
    \/ ReleaseSettles
    \/ ToggleAudio
    \/ LoadProfitability

SpecBrowser == InitBrowser /\ [][NextBrowser]_vars

(***************************************************************************)
(* prepareTransaction against the server of this repository: the bodies    *)
(* are the ones the handlers build from the fetched jar, threshold, UNI    *)
(* price and gas price.                                                    *)
(***************************************************************************)
\* /api/jar-balance: { success: true, tokens }
ServedJar == [success |-> TRUE, tokens |-> jarTokens]

\* /api/threshold: { success: true, threshold }
ServedThreshold == [success |-> TRUE, threshold |-> threshold]

\* /api/profitability
ServedProfitability ==
    profitabilityResponse(calculateOptimalBurn(jarTokens, uniPrice, threshold, gasPrice), gasPrice)

\* A click on executeBtn, the three bodies coming from the server.
PrepareServed == PrepareWith(ServedJar, ServedThreshold, ServedProfitability)

NextServed ==
    \/ ConnectWallet
    \/ AccountsChanged
    \/ PrepareServed

SpecServed == Init /\ [][NextServed]_vars

\* The addresses of the tokens the engine classifies as claimable for the
\* optimal burn: tokenBreakdown of calculateProfit(threshold, ...).
ClaimableAddresses ==
    LET settled == calculateProfit(threshold, uniPrice, jarTokens, threshold, gasPrice)
    IN  [j \in 1..Len(settled.tokenBreakdown) |-> settled.tokenBreakdown[j].address]

C27_AlertOncePerOpportunity ==
    /\ alerts <= 1
    /\ lastUpdate = "profitable" => hasPlayedAlert
    /\ lastUpdate = "not profitable" => ~hasPlayedAlert

\* The wallet flow alone: connecting, preparing, simulating, confirming or
\* cancelling, and the transactions settling.
NextWallet ==
    \/ ConnectWallet
    \/ AccountsChanged
    \/ PrepareTransaction
    \/ SimulationReturns
    \/ ClickCancel
    \/ ClickConfirm
    \/ ApprovalSettles
    \/ ReleaseSettles

SpecWallet == InitBrowser /\ [][NextWallet]_vars

(***************************************************************************)
(* Properties of the wallet flow (SpecWallet).                             *)
(***************************************************************************)

\* The threshold amounts /api/threshold serves.
ServedThresholds == { b.threshold : b \in { t \in ThresholdBodies : t.success } }

\* C25: in executeTransaction, a pending transaction that needs approval
\* has approve sent for exactly the threshold amount and confirmed before
\* release is sent, a rejected or failed approval is never followed by
\* release, and a transaction that needs no approval has no approve sent.
C25_ApproveBeforeRelease ==
    /\ wallet.kind = "approve" =>
          /\ wallet.needsApproval
          /\ wallet.amount \in ServedThresholds
          /\ wallet.approval = "none"
    /\ wallet.kind = "release" =>
          (wallet.needsApproval <=> wallet.approval = "confirmed")
    /\ \A e \in executing :
          /\ e.stage = "approve" => e.tx.needsApproval /\ e.approval = "none"
          /\ e.stage = "release" => (e.tx.needsApproval <=> e.approval = "confirmed")

C25_Witness ==
    /\ wallet.kind = "release"
    /\ wallet.needsApproval
    /\ wallet.approval = "confirmed"
    /\ wallet.amount \in ServedThresholds

\* C26: window.pendingTransaction is non-null only between a successful
\* simulation and the next closeModal, and no release is sent after Cancel
\* until a new successful simulation.
C26_PendingLifecycle ==
    /\ pendingTransaction # null => pendingTransaction.success /\ ~cancelled
    /\ wallet.kind = "release" => ~wallet.afterCancel

\* C30: whenever executeTransaction sends release, the recipient is the
\* account connected at that moment.
C30_RecipientIsCurrentAccount ==
    wallet.kind = "release" => wallet.recipient = wallet.account

(***************************************************************************)
(* Properties of calculateProfit                                           *)
(***************************************************************************)
TokenFields == {"address", "symbol", "balance", "decimals", "price"}

ProfitResultFields ==
    {"uniAmount", "uniCostUSD", "totalJarValueUSD", "gasCostUSD", "grossProfit",
     "netProfit", "profitPercentage", "minimumOutputUSD", "isProfitable",
     "meetsThreshold", "tokenBreakdown", "dustTokens", "estimatedGas",
     "allTokensCount", "filteredCount", "savedGasUSD"}

\* The input record an output entry was copied from.
InputOf(entry) == [f \in TokenFields |-> entry[f]]

\* The elements of seq at the indices in S, in order.
RECURSIVE AtIndices(_, _, _)
AtIndices(seq, S, i) ==
    IF i > Len(seq) THEN <<>>
    ELSE IF i \in S THEN <<seq[i]>> \o AtIndices(seq, S, i + 1)
    ELSE AtIndices(seq, S, i + 1)

InputsOf(entries) == [j \in 1..Len(entries) |-> InputOf(entries[j])]

\* The per-transfer cost of the current inputs, from the specification's
\* formula transferGasUnits * (gasPriceGwei / 1e9) * ethUsdPrice.
PerTransferCostUSD ==
    Mul(Mul(FromInt(TRANSFER_GAS_COST), DivPow10(gasPrice, 9)), EthPrice(jarTokens))

\* balance / 10^decimals * price of an input token
TokenValueUSD(token) ==
    Mul(Norm(token.balance.m, token.balance.e - (IF token.decimals = 0 THEN 18 ELSE token.decimals)),
        token.price)

InBreakdown(token) == \E j \in 1..Len(profit.tokenBreakdown) : InputOf(profit.tokenBreakdown[j]) = token

InDust(token) == \E j \in 1..Len(profit.dustTokens) : InputOf(profit.dustTokens[j]) = token

RECURSIVE SumValueUSD(_, _)
SumValueUSD(entries, i) ==
    IF i > Len(entries) THEN Zero
    ELSE Add(entries[i].valueUSD, SumValueUSD(entries, i + 1))

\* C1: calculateProfit splits the input indices into two classes: the
\* claimable list is the input at one class, the dust list is the input at
\* the other, both in input order, so no token is dropped or duplicated and
\* tokenBreakdown.length + dustTokens.length = jarTokens.length = allTokensCount.
C1_Partition ==
    pc = "profit" =>
        /\ Len(profit.tokenBreakdown) + Len(profit.dustTokens) = Len(jarTokens)
        /\ profit.allTokensCount = Len(jarTokens)
        /\ \E S \in SUBSET (1..Len(jarTokens)) :
              /\ InputsOf(profit.tokenBreakdown) = AtIndices(jarTokens, S, 1)
              /\ InputsOf(profit.dustTokens) = AtIndices(jarTokens, (1..Len(jarTokens)) \ S, 1)

C1_Witness ==
    /\ pc = "profit"
    /\ Len(profit.tokenBreakdown) > 0
    /\ Len(profit.dustTokens) > 0

\* C2: a token is in tokenBreakdown iff its valueUSD is strictly greater
\* than transferCostUSD, and in dustTokens otherwise; a token whose value
\* equals the cost is dust.
C2_Classification ==
    pc = "profit" =>
        \A i \in 1..Len(jarTokens) :
            /\ InBreakdown(jarTokens[i]) <=> Gt(TokenValueUSD(jarTokens[i]), PerTransferCostUSD)
            /\ InDust(jarTokens[i]) <=> ~Gt(TokenValueUSD(jarTokens[i]), PerTransferCostUSD)

\* a token whose value equals a positive transfer cost has been classified
C2_Witness ==
    /\ pc = "profit"
    /\ Truthy(PerTransferCostUSD)
    /\ \E i \in 1..Len(jarTokens) :
          /\ TokenValueUSD(jarTokens[i]) = PerTransferCostUSD
          /\ InDust(jarTokens[i])

\* C3: a token whose price is 0 or missing is dust whatever its balance and
\* whatever the gas price, a gas price of 0 included.
C3_ZeroPriceIsDust ==
    pc = "profit" =>
        \A i \in 1..Len(jarTokens) :
            ~Truthy(jarTokens[i].price) =>
                InDust(jarTokens[i]) /\ ~InBreakdown(jarTokens[i])

\* gas price 0, and both a zero-priced and an unpriced token with a balance
C3_Witness ==
    /\ pc = "profit"
    /\ gasPrice = Zero
    /\ \E i, j \in 1..Len(jarTokens) :
          /\ jarTokens[i].price = Zero
          /\ jarTokens[i].balance.m > 0
          /\ jarTokens[j].price = NaN
          /\ jarTokens[j].balance.m > 0

\* C4: totalJarValueUSD is the sum of valueUSD over tokenBreakdown; no dust
\* value enters it, grossProfit or netProfit.
C4_ClaimableValue ==
    pc = "profit" =>
        LET claimable == SumValueUSD(profit.tokenBreakdown, 1)
        IN  /\ profit.totalJarValueUSD = claimable
            /\ profit.grossProfit = Sub(claimable, profit.uniCostUSD)
            /\ profit.netProfit = Sub(Sub(claimable, profit.uniCostUSD), profit.gasCostUSD)

\* a dust token with a positive value next to a claimable token
C4_Witness ==
    /\ pc = "profit"
    /\ Len(profit.tokenBreakdown) > 0
    /\ \E j \in 1..Len(profit.dustTokens) : Gt(profit.dustTokens[j].valueUSD, Zero)

\* C5: estimatedGas = BASE_GAS_COST + |claimable| * TRANSFER_GAS_COST, from
\* the filtered list and not the input length; gasCostUSD is that gas times
\* gasPrice / 1e9 times the ETH price.
C5_EstimatedGas ==
    pc = "profit" =>
        /\ profit.estimatedGas = BASE_GAS_COST + Len(profit.tokenBreakdown) * TRANSFER_GAS_COST
        /\ profit.gasCostUSD =
              Mul(Mul(FromInt(profit.estimatedGas), DivPow10(gasPrice, 9)), EthPrice(jarTokens))

\* the filtered list is shorter than the input and gas has a price
C5_Witness ==
    /\ pc = "profit"
    /\ Len(profit.tokenBreakdown) > 0
    /\ Len(profit.tokenBreakdown) < Len(jarTokens)
    /\ Gt(profit.gasCostUSD, Zero)

\* C6: grossProfit = claimable value - uniCostUSD, netProfit = grossProfit -
\* gasCostUSD, and uniCostUSD = (uniAmount / 10^18) * uniPrice.
C6_ProfitArithmetic ==
    pc = "profit" =>
        /\ profit.grossProfit = Sub(profit.totalJarValueUSD, profit.uniCostUSD)
        /\ profit.netProfit = Sub(profit.grossProfit, profit.gasCostUSD)
        /\ profit.uniCostUSD = Mul(Norm(uniAmount.m, uniAmount.e - 18), uniPrice)

C6_Witness ==
    /\ pc = "profit"
    /\ Gt(profit.totalJarValueUSD, Zero)
    /\ Gt(profit.uniCostUSD, Zero)
    /\ Gt(profit.gasCostUSD, Zero)

\* C7: isProfitable is true iff netProfit > 0; a net profit of exactly 0 is
\* not profitable.
C7_IsProfitable ==
    pc = "profit" =>
        (profit.isProfitable <=> (~profit.netProfit.nan /\ profit.netProfit.m > 0))

\* a net profit of exactly 0 has been reported
C7_Witness ==
    /\ pc = "profit"
    /\ profit.netProfit = Zero
    /\ ~profit.isProfitable

C7_WitnessProfitable ==
    /\ pc = "profit"
    /\ profit.isProfitable

\* Every field is present and every numeric field is a finite number.
WellFormed(r) ==
    /\ DOMAIN r = ProfitResultFields
    /\ \A f \in {"uniAmount", "uniCostUSD", "totalJarValueUSD", "gasCostUSD", "grossProfit",
                 "netProfit", "profitPercentage", "minimumOutputUSD", "savedGasUSD"} : ~r[f].nan
    /\ r.isProfitable \in BOOLEAN
    /\ r.meetsThreshold \in BOOLEAN

\* C8: when no input token is claimable (the empty list included) the result
\* is well formed, with claimable value 0, grossProfit = -uniCostUSD,
\* netProfit = -uniCostUSD - base gas cost in USD, and isProfitable false.
C8_NothingClaimable ==
    (pc = "profit" /\ \A i \in 1..Len(jarTokens) : ~Gt(TokenValueUSD(jarTokens[i]), PerTransferCostUSD)) =>
        LET baseGasCostUSD ==
                Mul(Mul(FromInt(BASE_GAS_COST), DivPow10(gasPrice, 9)), EthPrice(jarTokens))
        IN  /\ WellFormed(profit)
            /\ profit.tokenBreakdown = <<>>
            /\ profit.totalJarValueUSD = Zero
            /\ profit.grossProfit = Neg(profit.uniCostUSD)
            /\ profit.netProfit = Sub(Neg(profit.uniCostUSD), baseGasCostUSD)
            /\ profit.isProfitable = FALSE

\* a non-empty input of which every token is dust, with a zero resource cost
C8_Witness ==
    /\ pc = "profit"
    /\ Len(jarTokens) > 0
    /\ Len(profit.tokenBreakdown) = 0
    /\ profit.uniCostUSD = Zero
    /\ Gt(profit.gasCostUSD, Zero)

C8_WitnessEmpty ==
    /\ pc = "profit"
    /\ jarTokens = <<>>

(***************************************************************************)
(* Properties of calculateOptimalBurn                                      *)
(***************************************************************************)
\* C9: the result of calculateOptimalBurn has optimalBurnAmount = uniAmount =
\* threshold / 10^18, optimalBurnWei = threshold and meetsThreshold = true.
C9_BurnIsThreshold ==
    pc = "burn" =>
        /\ optimal.optimalBurnAmount = Norm(threshold.m, threshold.e - 18)
        /\ optimal.optimalBurnWei = threshold
        /\ "uniAmount" \in DOMAIN optimal
        /\ optimal.uniAmount = optimal.optimalBurnAmount
        /\ "meetsThreshold" \in DOMAIN optimal
        /\ optimal.meetsThreshold = TRUE

\* C10: the result of calculateOptimalBurn carries, besides the burn amount,
\* every field of the ProfitResult computed at uniAmount = threshold.
C10_FullyPopulated ==
    pc = "burn" =>
        /\ {"optimalBurnAmount", "optimalBurnWei"} \subseteq DOMAIN optimal
        /\ ProfitResultFields \subseteq DOMAIN optimal
        /\ \A f \in ProfitResultFields :
              optimal[f] = calculateProfit(threshold, uniPrice, jarTokens, threshold, gasPrice)[f]

(***************************************************************************)
(* Further properties of calculateProfit                                   *)
(***************************************************************************)
\* C11: raising the price of one claimable token, everything else fixed,
\* never lowers netProfit; this holds for every claimable token, the one
\* with symbol WETH included.
C11_ProfitMonotone ==
    pc = "raised" => Ge(profit2.netProfit, profit.netProfit)

C13_ProfitPercentage ==
    pc = "profit" =>
        /\ Gt(profit.uniCostUSD, Zero) =>
              profit.profitPercentage = Mul(Div(profit.netProfit, profit.uniCostUSD), Num(100, 0))
        /\ profit.uniCostUSD = Zero => profit.profitPercentage = Zero
        /\ ~profit.profitPercentage.nan

\* a zero resource cost with a non-zero net profit: the quotient is not finite
C13_Witness ==
    /\ pc = "profit"
    /\ profit.uniCostUSD = Zero
    /\ profit.netProfit # Zero

(***************************************************************************)
(* Properties of formatProfitData and of its client                        *)
(***************************************************************************)
\* C16: in the output of formatProfitData, filtered is true iff dustCount > 0,
\* and dustCount is the number of tokens the engine classified as dust.
C16_Filtered ==
    pc = "formatted" =>
        /\ formatted.filtered <=> formatted.dustCount > 0
        /\ formatted.dustCount = Len(profit.dustTokens)

\* a formatted result without any dust token, from a non-empty input
C16_Witness ==
    /\ pc = "formatted"
    /\ Len(jarTokens) > 0
    /\ formatted.dustCount = 0
    /\ ~formatted.filtered

C16_WitnessFiltered ==
    /\ pc = "formatted"
    /\ formatted.dustCount > 0
    /\ formatted.filtered

\* C17: every entry of the formatted tokenBreakdown has exactly the fields
\* address, symbol, balance, valueUSD, and the entries are the claimable
\* tokens in the engine's order.
C17_BreakdownShape ==
    pc = "formatted" =>
        /\ Len(formatted.tokenBreakdown) = Len(profit.tokenBreakdown)
        /\ \A j \in 1..Len(profit.tokenBreakdown) :
              /\ DOMAIN formatted.tokenBreakdown[j] = {"address", "symbol", "balance", "valueUSD"}
              /\ formatted.tokenBreakdown[j].address = profit.tokenBreakdown[j].address
              /\ formatted.tokenBreakdown[j].symbol = profit.tokenBreakdown[j].symbol

\* two claimable tokens with different addresses have been formatted
C17_Witness ==
    /\ pc = "formatted"
    /\ Len(formatted.tokenBreakdown) >= 2
    /\ formatted.tokenBreakdown[1].address # formatted.tokenBreakdown[2].address

\* The number a formatted string reads as once `$` and `%` are removed.
StripAndParse(str) ==
    IF str.num.nan THEN NaN
    ELSE parseFloat(Str(IF str.num.neg THEN -str.num.n ELSE str.num.n, -str.num.places))

\* |a - b| <= 0.005 : a is a nearest value with two decimals to b
WithinHalfCent(a, b) ==
    /\ ~a.nan
    /\ ~b.nan
    /\ Ge(Num(5, -3), Sub(a, b))
    /\ Ge(Num(5, -3), Sub(b, a))

MonetaryFields ==
    {<<"uniCostUSD", "uniCostUSD">>, <<"totalJarValueUSD", "totalJarValueUSD">>,
     <<"gasCostUSD", "gasCostUSD">>, <<"grossProfit", "grossProfit">>,
     <<"netProfit", "netProfit">>, <<"minimumOutputUSD", "minimumOutputUSD">>,
     <<"savedGas", "savedGasUSD">>}

\* C18: every monetary or percent string of formatProfitData, with `$` or `%`
\* removed and parsed, is the original number rounded to 2 decimals, negative
\* numbers included.
C18_RoundTrip ==
    pc = "formatted" =>
        /\ \A f \in MonetaryFields :
              /\ formatted[f[1]].prefix = "$"
              /\ formatted[f[1]].num.places = 2
              /\ WithinHalfCent(StripAndParse(formatted[f[1]]), profit[f[2]])
        /\ formatted.profitPercentage.suffix = "%"
        /\ formatted.profitPercentage.num.places = 2
        /\ WithinHalfCent(StripAndParse(formatted.profitPercentage), profit.profitPercentage)
        /\ \A j \in 1..Len(profit.tokenBreakdown) :
              WithinHalfCent(StripAndParse(formatted.tokenBreakdown[j].valueUSD),
                             profit.tokenBreakdown[j].valueUSD)

\* a negative net profit, and a percentage that two decimals cannot hold
C18_Witness ==
    /\ pc = "formatted"
    /\ profit.netProfit.m < 0
    /\ profit.profitPercentage.m < 0
    /\ StripAndParse(formatted.profitPercentage) # profit.profitPercentage

\* C19: when the engine's isProfitable is true the value formatProfitData
\* emits makes updateProfitabilityUI take its profitable branch, and when it
\* is false the other branch.
C19_ProfitableBranch ==
    pc = "ui" =>
        (profit.isProfitable <=> ui.netProfitClass = "profit-val positive")

(***************************************************************************)
(* Invalid input, the request handler, purity                              *)
(***************************************************************************)
NumericFields ==
    {"uniAmount", "uniCostUSD", "totalJarValueUSD", "gasCostUSD", "grossProfit",
     "netProfit", "profitPercentage", "minimumOutputUSD", "savedGasUSD"}

\* C14: on invalid numeric input the engine raises an error; a result it
\* returns never has a numeric field that is NaN or infinite.
C14_NoNaNResult ==
    pc = "profit" =>
        /\ \A f \in NumericFields : ~profit[f].nan
        /\ \A j \in 1..Len(profit.tokenBreakdown) : ~profit.tokenBreakdown[j].valueUSD.nan
        /\ \A j \in 1..Len(profit.dustTokens) : ~profit.dustTokens[j].valueUSD.nan

\* C15: on every path of the /api/profitability handler malformed input is
\* rejected before calculateOptimalBurn is invoked: the engine is never
\* entered with an empty token list.
C15_ValidatedBeforeEngine ==
    (pc = "responded" /\ jarTokens = <<>>) => DOMAIN optimal = {}

WethIndices == { i \in 1..Len(jarTokens) : jarTokens[i].symbol = "WETH" }

\* The ETH/USD price the claim C28 names: the price of the first WETH token
\* when it is a non-zero number, 2000 otherwise.
NamedEthPrice ==
    IF WethIndices = {} THEN Num(2000, 0)
    ELSE LET first == CHOOSE i \in WethIndices : \A j \in WethIndices : i <= j
             price == jarTokens[first].price
         IN  IF price.nan \/ price.m = 0 THEN Num(2000, 0) ELSE price

\* C28: the ETH price behind the dust cut-off and behind gasCostUSD is the
\* price of the first input token with symbol 'WETH' when that is non-zero
\* and 2000 otherwise; it is strictly positive, and one value serves both:
\* every token is classified against 60000 * gasPrice/1e9 * that price, every
\* dust entry reports that cut-off, and gasCostUSD is estimatedGas *
\* gasPrice/1e9 * that price.
C28_EthPriceUsed ==
    pc = "profit" =>
        LET cutOff == Mul(Mul(FromInt(60000), DivPow10(gasPrice, 9)), NamedEthPrice)
        IN  /\ Gt(NamedEthPrice, Zero)
            /\ profit.gasCostUSD =
                   Mul(Mul(FromInt(profit.estimatedGas), DivPow10(gasPrice, 9)), NamedEthPrice)
            /\ \A j \in 1..Len(profit.dustTokens) :
                   /\ profit.dustTokens[j].costToClaimUSD = cutOff
                   /\ ~Gt(profit.dustTokens[j].valueUSD, cutOff)
            /\ \A j \in 1..Len(profit.tokenBreakdown) :
                   /\ Gt(profit.tokenBreakdown[j].valueUSD, cutOff)
                   /\ profit.tokenBreakdown[j].netValueUSD =
                          Sub(profit.tokenBreakdown[j].valueUSD, cutOff)

\* Two WETH tokens with different prices, the first of them unpriced, a
\* non-zero gas price, and both a claimable and a dust token in the result.
C28_Witness ==
    /\ pc = "profit"
    /\ gasPrice.m > 0
    /\ Len(jarTokens) = 2
    /\ jarTokens[1].symbol = "WETH" /\ jarTokens[1].price = Zero
    /\ jarTokens[2].symbol = "WETH" /\ jarTokens[2].price.m > 0
    /\ Len(profit.tokenBreakdown) = 1
    /\ Len(profit.dustTokens) = 1

(***************************************************************************)
(* Properties of the price cache                                           *)
(***************************************************************************)
\* The call that starts in the current step.
StartedCall(settledNext, pendingNext, id) ==
    IF settledNext.id = id THEN settledNext ELSE CHOOSE c \in pendingNext : c.id = id

\* The addresses of a list.
Members(seq) == { seq[i] : i \in 1..Len(seq) }

\* C23: a call of getMultipleTokenPrices takes, for every requested address
\* whose cache entry is younger than 60 s, the cached price and sends no
\* request for it; with all requested addresses fresh it sends no request at
\* all and returns; an address whose entry is missing or at least 60 s old
\* is in the request; and the prices taken from the cache are the ones the
\* call returns.
C23_Freshness ==
    [][ /\ nCalls' # nCalls =>
              LET call == StartedCall(lastCall', inFlight', nCalls')
                  sent == IF Len(requests') > Len(requests)
                          THEN Members(requests'[Len(requests')]) ELSE {}
              IN  /\ \A i \in 1..Len(call.requested) :
                        LET addr == toLowerCase(call.requested[i])
                        IN  IF addr \in DOMAIN priceCache /\
                               clock - priceCache[addr].timestamp < 60000
                            THEN /\ addr \in DOMAIN call.prices
                                 /\ call.prices[addr] = priceCache[addr].price
                                 /\ addr \notin sent
                            ELSE addr \in sent
                  /\ (\A i \in 1..Len(call.requested) :
                          /\ toLowerCase(call.requested[i]) \in DOMAIN priceCache
                          /\ clock - priceCache[toLowerCase(call.requested[i])].timestamp < 60000)
                       => /\ requests' = requests
                          /\ lastCall'.id = nCalls'
                          /\ lastCall'.settled = "cached"
        /\ lastCall'.id # lastCall.id =>
              \A c \in inFlight : c.id = lastCall'.id =>
                  \A addr \in DOMAIN c.prices : /\ addr \in DOMAIN lastCall'.prices
                                                /\ lastCall'.prices[addr] = c.prices[addr]
      ]_vars

\* A call for two addresses has returned that took one price from an entry
\* 30 s old and sent a request for the other address only.
C23_Witness ==
    /\ lastCall.settled = "fetched"
    /\ Len(lastCall.requested) = 2
    /\ Len(lastCall.toFetch) = 1
    /\ \E addr \in DOMAIN priceCache :
          /\ addr \notin Members(lastCall.toFetch)
          /\ lastCall.now - priceCache[addr].timestamp = TickMs
          /\ lastCall.prices[addr] = priceCache[addr].price
    /\ requests[Len(requests)] = lastCall.toFetch

\* C24: when the request of a call fails, or the answer has no price for
\* an address asked for, the call returns for that address the price of the
\* cache entry it finds (expired or not) and leaves that entry as it is; an
\* address without an entry is absent from the result, and getTokenPrice
\* gives 0 for it.
C24_Fallback ==
    [][ (lastCall'.id # lastCall.id /\ lastCall'.settled \in {"fetched", "failed"}) =>
            \A i \in 1..Len(lastCall'.toFetch) :
                LET addr == lastCall'.toFetch[i]
                IN  (lastCall'.settled = "failed" \/ addr \notin DOMAIN lastCall'.data) =>
                        IF addr \in DOMAIN priceCache
                        THEN /\ addr \in DOMAIN lastCall'.prices
                             /\ lastCall'.prices[addr] = priceCache[addr].price
                             /\ addr \in DOMAIN priceCache'
                             /\ priceCache'[addr] = priceCache[addr]
                        ELSE /\ addr \notin DOMAIN lastCall'.prices
                             /\ getTokenPrice(lastCall'.prices, addr) = Zero
      ]_vars

\* A failed request for two addresses: one has an entry that was already
\* 60 s old when the call began and its price is returned, the other has no
\* entry and is absent from the result.
C24_Witness ==
    /\ lastCall.settled = "failed"
    /\ Len(lastCall.toFetch) = 2
    /\ \E addr \in Members(lastCall.toFetch) :
          /\ addr \in DOMAIN priceCache
          /\ lastCall.now - priceCache[addr].timestamp >= CACHE_DURATION
          /\ addr \in DOMAIN lastCall.prices
    /\ \E addr \in Members(lastCall.toFetch) :
          /\ addr \notin DOMAIN priceCache
          /\ addr \notin DOMAIN lastCall.prices

\* C29: the timestamp stored for an address never decreases, whatever the
\* order in which overlapping calls receive their responses.
C29_TimestampMonotone ==
    [][ \A addr \in DOMAIN priceCache :
            /\ addr \in DOMAIN priceCache'
            /\ priceCache'[addr].timestamp >= priceCache[addr].timestamp ]_vars

(***************************************************************************)
(* Properties of EmberSolver.execute                                       *)
(***************************************************************************)
\* C22: a call of execute that did not revert was sent by the owner and saw
\* the contract's WETH balance grow over the loop by at least minProfitETH;
\* it has transferred exactly endEthBal - startEthBal to the owner; and a
\* swap that failed does not make a call revert that meets those conditions.
C22_Execute ==
    /\ (solved.caller # "none" /\ ~solved.reverted) =>
           /\ solved.caller = "owner"
           /\ solved.endEthBal >= solved.startEthBal
           /\ solved.endEthBal - solved.startEthBal >= solved.minProfitETH
           /\ solved.transferred = solved.endEthBal - solved.startEthBal
    /\ (/\ solved.failedSwaps > 0
        /\ solved.caller = "owner"
        /\ solved.uniOk /\ solved.burnOk
        /\ solved.endEthBal - solved.startEthBal >= solved.minProfitETH) => ~solved.reverted

\* A call by the owner went through with one swap failed, another paying
\* WETH, a WETH balance before the loop, and a positive minProfitETH.
C22_Witness ==
    /\ solved.caller = "owner"
    /\ ~solved.reverted
    /\ solved.failedSwaps = 1
    /\ solved.startEthBal > 0
    /\ solved.endEthBal > solved.startEthBal
    /\ solved.minProfitETH > 0
    /\ solved.transferred > 0
    /\ wethOf["owner"] >= solved.transferred
    /\ \E t \in DustTokens : held[t] > 0

=============================================================================
